---- MODULE Spec2Model ----
(***************************************************************************)
(* Model of src/natives-external.cc: the blob-backed natives store.        *)
(*                                                                         *)
(*   NativesStore            a decoded collection of (name, source) spans  *)
(*   NativesHolder<type>     one static pointer per NativeType             *)
(*   SetNativesFromFile      the loader: two stores out of one blob        *)
(*   NativesCollection<type> the static facade over the holders            *)
(*                                                                         *)
(* SnapshotByteSource (src/snapshot-source-sink.h), ASSERT/CHECK           *)
(* (src/checks.h) and List (src/list.h) are not part of the sources at     *)
(* hand; they are modelled from the specification (sections 4.1, 6, 7).    *)
(***************************************************************************)
EXTENDS Integers, Sequences, FiniteSets, TLC

\* ------------------------------------------------------------------------
\* Bounds of the model.
\* ------------------------------------------------------------------------

\* Most pairs (debugger + library) in one generated store.
MaxPairs == 2

\* Most calls of SetNativesFromFile in one run of the lifecycle specification.
MaxLoads == 2

\* Most bytes cut off the end of a well-formed blob to make a truncated one.
MaxCut == 2

\* The element of a one-element set. The({Body(v) : v \in {value}}) is Body
\* of the value, the value computed once however often Body uses it.
The(S) == CHOOSE out \in S : TRUE

\* ------------------------------------------------------------------------
\* Bytes and integers on the wire (spec section 6: int32, width and byte
\* order agreed with the encoder).
\* ------------------------------------------------------------------------

IntWidth == 4

ByteOrders == {"little", "big"}

\* 256^i, for the digits of an int32.
Pow256(i) == IF i = 0 THEN 1 ELSE IF i = 1 THEN 256 ELSE IF i = 2 THEN 65536
             ELSE 16777216

\* The digit (0 = least significant) held by the i-th byte (1-based).
DigitOf(i, order) == IF order = "little" THEN i - 1 ELSE IntWidth - i

\* An int as IntWidth bytes, two's complement.
EncodeInt(v, order) ==
  [i \in 1..IntWidth |-> (v \div Pow256(DigitOf(i, order))) % 256]

\* The int held by the IntWidth bytes of buf that start at offset pos: the
\* most significant byte carries the sign.
DecodeInt(buf, pos, order) ==
  LET Byte(k) == buf[pos + (CHOOSE i \in 1..IntWidth : DigitOf(i, order) = k)]
      top == IF Byte(3) >= 128 THEN Byte(3) - 256 ELSE Byte(3)
  IN  top * Pow256(3) + Byte(2) * Pow256(2) + Byte(1) * Pow256(1) + Byte(0)

\* ------------------------------------------------------------------------
\* SnapshotByteSource: a forward-only cursor [data, length, position].
\* ------------------------------------------------------------------------

\* What a failed GetBlob does to the position is not fixed by the
\* specification: "stay" leaves it, "end" moves it to the end of the data.
FailPolicies == {"stay", "end"}

SnapshotByteSource(data) == [data |-> data, length |-> Len(data), position |-> 0]

HasMore(bytes) == bytes.position < bytes.length

\* GetInt: [ok, value, bytes]. ok = FALSE is the fatal outcome of reading an
\* int where fewer than IntWidth bytes remain.
GetInt(bytes, order) ==
  IF bytes.position + IntWidth <= bytes.length
  THEN [ok |-> TRUE,
        value |-> DecodeInt(bytes.data, bytes.position, order),
        bytes |-> [bytes EXCEPT !.position = @ + IntWidth]]
  ELSE [ok |-> FALSE, value |-> 0, bytes |-> bytes]

\* GetBlob: [success, start, length, bytes]. start is the offset of the span
\* in the data (0-based), length its size; neither is meaningful on failure.
GetBlob(bytes, order, policy) ==
  LET failed == [success |-> FALSE, start |-> 0, length |-> 0,
                 bytes |-> [bytes EXCEPT !.position =
                              IF policy = "end" THEN bytes.length ELSE @]]
      from == bytes.position + IntWidth
  IN  IF from > bytes.length
      THEN failed
      ELSE The({ IF n < 0 \/ from + n > bytes.length
                 THEN failed
                 ELSE [success |-> TRUE, start |-> from, length |-> n,
                       bytes |-> [bytes EXCEPT !.position = from + n]]
                 : n \in {DecodeInt(bytes.data, bytes.position, order)} })

\* ------------------------------------------------------------------------
\* checks.h
\* ------------------------------------------------------------------------

\* ASSERT(condition) / CHECK(condition): execution goes on iff the condition
\* holds; otherwise the process ends in a fatal error.
ASSERT(condition) == condition

CHECK(condition) == condition

\* List<T>::operator[] (list.h): ASSERT(0 <= i && i < length_).
InRange(list, index) == ASSERT(0 <= index /\ index < Len(list))

\* ------------------------------------------------------------------------
\* NativesStore
\*
\* A store is [native_names_, native_source_, debugger_count_, blob]. A
\* Vector<const char> is [start, length]: a borrowed view of `length` bytes at
\* offset `start` (0-based) of the blob the store was decoded from; `blob` is
\* the memory those pointers point into.
\* ------------------------------------------------------------------------

\* NativesStore() : debugger_count_(0) {}
NewNativesStore(data) ==
  [native_names_ |-> <<>>, native_source_ |-> <<>>, debugger_count_ |-> 0,
   blob |-> data]

\* The bytes a Vector views.
Bytes(store, vector) ==
  SubSeq(store.blob, vector.start + 1, vector.start + vector.length)

\* An accessor's outcome: ok = FALSE is a fatal error; ret is the value
\* returned, self the store after the call.
Returned(value, store) == [ok |-> TRUE, ret |-> value, self |-> store]

Fatal(store) == [ok |-> FALSE, ret |-> <<>>, self |-> store]

GetBuiltinsCount(store) == Returned(Len(store.native_names_), store)

GetDebuggerCount(store) == Returned(store.debugger_count_, store)

GetScriptName(store, index) ==
  IF InRange(store.native_names_, index)
  THEN Returned(Bytes(store, store.native_names_[index + 1]), store)
  ELSE Fatal(store)

\* GetRawScriptSource handing its span over: the entry is left empty.
GetRawScriptSource_MovesOut(store, index) ==
  IF InRange(store.native_source_, index)
  THEN Returned(Bytes(store, store.native_source_[index + 1]),
                [store EXCEPT !.native_source_[index + 1].length = 0])
  ELSE Fatal(store)

GetRawScriptSource(store, index) ==
  IF InRange(store.native_source_, index)
  THEN Returned(Bytes(store, store.native_source_[index + 1]), store)
  ELSE Fatal(store)

\* The C string at offset start of data: the bytes up to the first 0 byte
\* (or to the end of the data when none follows).
RECURSIVE CString(_, _)
CString(data, start) ==
  IF start >= Len(data) \/ data[start + 1] = 0
  THEN <<>>
  ELSE <<data[start + 1]>> \o CString(data, start + 1)

\* strcmp(a, b) == 0, for a query string a and the C string at a pointer.
StrcmpEqual(name, data, start) == name = CString(data, start)

\* The loop of GetIndex from index i on: the first index whose name compares
\* equal, or -1 when the loop ends without one.
RECURSIVE GetIndexFrom(_, _, _)
GetIndexFrom(store, name, i) ==
  IF i >= Len(store.native_names_)
  THEN -1
  ELSE IF StrcmpEqual(name, store.blob, store.native_names_[i + 1].start)
       THEN i
       ELSE GetIndexFrom(store, name, i + 1)

GetIndex(store, name) ==
  The({ IF i >= 0 THEN Returned(i, store)
        ELSE IF ASSERT(FALSE) THEN Returned(-1, store) ELSE Fatal(store)
        : i \in {GetIndexFrom(store, name, 0)} })

GetRawScriptsSize(store) ==
  IF ASSERT(FALSE) THEN Returned(0, store) ELSE Fatal(store)

\* GetScriptsSource without its ASSERT(false): it returns an empty vector.
GetScriptsSource_ReturnsEmpty(store) == Returned(<<>>, store)

GetScriptsSource(store) ==
  IF ASSERT(FALSE) THEN Returned(<<>>, store) ELSE Fatal(store)

\* The store with the pair of spans (name, source) added to its two lists.
AddPair(store, name, source) ==
  [store EXCEPT
     !.native_names_ = Append(@, [start |-> name.start, length |-> name.length]),
     !.native_source_ =
        Append(@, [start |-> source.start, length |-> source.length])]

\* ReadNameAndContentPair: [success, store, bytes]. name is the outcome of
\* the first GetBlob, source that of the second, which is not called when the
\* first fails (&&).
ReadNameAndContentPair(store, bytes, abi) ==
  The({ IF ~name.success
        THEN [success |-> FALSE, store |-> store, bytes |-> name.bytes]
        ELSE The({ [success |-> source.success,
                    store |-> IF source.success
                              THEN AddPair(store, name, source) ELSE store,
                    bytes |-> source.bytes]
                   : source \in {GetBlob(name.bytes, abi.order, abi.policy)} })
        : name \in {GetBlob(bytes, abi.order, abi.policy)} })

\* for (int i = 0; i < count; ++i) store->ReadNameAndContentPair(source);
\* [store, bytes, dropped]: dropped counts the calls that returned false, a
\* value the loop itself does not look at. r is the outcome of the i-th
\* call, rest that of the iterations after it. A call that fails and moves
\* nothing leaves every later call of the loop to fail the same way: the
\* remaining count - i iterations are taken at once.
RECURSIVE ReadPairs(_, _, _, _, _)
ReadPairs(store, bytes, i, count, abi) ==
  IF i >= count
  THEN [store |-> store, bytes |-> bytes, dropped |-> 0]
  ELSE The({ IF ~r.success /\ r.bytes = bytes
             THEN [store |-> store, bytes |-> bytes, dropped |-> count - i]
             ELSE The({ [rest EXCEPT
                           !.dropped = @ + (IF r.success THEN 0 ELSE 1)]
                        : rest \in {ReadPairs(r.store, r.bytes, i + 1, count,
                                              abi)} })
             : r \in {ReadNameAndContentPair(store, bytes, abi)} })

\* int count = source->GetInt(); followed by the loop over count:
\* [ok, count, store, bytes, dropped]. ok = FALSE: the GetInt ended the
\* process.
ReadGroup(store, bytes, abi) ==
  The({ IF ~count.ok
        THEN [ok |-> FALSE, count |-> 0, store |-> store, bytes |-> bytes,
              dropped |-> 0]
        ELSE The({ [ok |-> TRUE, count |-> count.value, store |-> read.store,
                    bytes |-> read.bytes, dropped |-> read.dropped]
                   : read \in {ReadPairs(store, count.bytes, 0, count.value,
                                         abi)} })
        : count \in {GetInt(bytes, abi.order)} })

\* MakeFromScriptsSource recording the library count as debugger_count_.
MakeFromScriptsSource_LibraryCount(source, abi) ==
  The({ IF ~debuggers.ok
        THEN [ok |-> FALSE, store |-> debuggers.store,
              bytes |-> debuggers.bytes, dropped |-> 0]
        ELSE The({ [ok |-> libraries.ok,
                    store |-> [libraries.store EXCEPT
                                 !.debugger_count_ = libraries.count],
                    bytes |-> libraries.bytes,
                    dropped |-> debuggers.dropped + libraries.dropped]
                   : libraries \in {ReadGroup(debuggers.store, debuggers.bytes,
                                              abi)} })
        : debuggers \in {ReadGroup(NewNativesStore(source.data), source, abi)} })

\* MakeFromScriptsSource: [ok, store, bytes, dropped]. ok = FALSE: a GetInt
\* ended the process; otherwise store is the store returned. debuggers is the
\* outcome of reading the debugger sources, libraries that of the others.
MakeFromScriptsSource(source, abi) ==
  The({ IF ~debuggers.ok
        THEN [ok |-> FALSE, store |-> debuggers.store,
              bytes |-> debuggers.bytes, dropped |-> 0]
        ELSE The({ [ok |-> libraries.ok,
                    store |-> IF libraries.ok
                              THEN [libraries.store EXCEPT
                                      !.debugger_count_ = debuggers.count]
                              ELSE libraries.store,
                    bytes |-> libraries.bytes,
                    dropped |-> debuggers.dropped + libraries.dropped]
                   : libraries \in {ReadGroup(debuggers.store, debuggers.bytes,
                                              abi)} })
        : debuggers \in {ReadGroup(NewNativesStore(source.data), source, abi)} })

\* ------------------------------------------------------------------------
\* Blobs handed to the loader: the format of spec section 6,
\*   Blob  := Store Store
\*   Store := debuggerCount Pair{debuggerCount} libraryCount Pair{libraryCount}
\*   Pair  := nameLen name sourceLen source
\* and damaged variants of it.
\* ------------------------------------------------------------------------

\* Script names: "a", "ab" and a name with a 0 byte inside, "a\0b".
Names == {<<97>>, <<97, 98>>, <<97, 0, 98>>}

\* Script sources: the empty source and "x".
Sources == {<<>>, <<120>>}

Pairs == [name : Names, source : Sources]

SeqsUpTo(S, n) == UNION {[1..k -> S] : k \in 0..n}

\* A store as the encoder sees it. In a well-formed one each count is the
\* number of pairs that follow it.
StoreOf(debuggers, libraries) ==
  [debugger_count |-> Len(debuggers), debuggers |-> debuggers,
   library_count |-> Len(libraries), libraries |-> libraries]

WellFormedStores ==
  {StoreOf(SubSeq(ps, 1, d), SubSeq(ps, d + 1, Len(ps))) :
     <<ps, d>> \in {x \in SeqsUpTo(Pairs, MaxPairs) \X (0..MaxPairs) :
                      x[2] <= Len(x[1])}}

\* Stores whose debugger count field is negative.
NegativeCountStores ==
  {[StoreOf(<<>>, ls) EXCEPT !.debugger_count = -1] :
     ls \in SeqsUpTo(Pairs, 1)}

WellFormed(desc) ==
  /\ desc.debugger_count = Len(desc.debuggers)
  /\ desc.library_count = Len(desc.libraries)

\* All pairs of a store, debugger pairs first.
AllPairs(desc) == desc.debuggers \o desc.libraries

BlobBytes(bs, order) == EncodeInt(Len(bs), order) \o bs

RECURSIVE PairsBytes(_, _)
PairsBytes(ps, order) ==
  IF ps = <<>> THEN <<>>
  ELSE BlobBytes(Head(ps).name, order) \o BlobBytes(Head(ps).source, order)
         \o PairsBytes(Tail(ps), order)

StoreBytes(desc, order) ==
  EncodeInt(desc.debugger_count, order) \o PairsBytes(desc.debuggers, order)
    \o EncodeInt(desc.library_count, order) \o PairsBytes(desc.libraries, order)

\* An input: two stores, then `cut` bytes dropped from the end, then the
\* bytes `extra` added after it.
Intact(input) == input.cut = 0 /\ input.extra = <<>>

BlobOf(input, order) ==
  LET whole == StoreBytes(input.core, order)
                 \o StoreBytes(input.experimental, order)
  IN  SubSeq(whole, 1, Len(whole) - input.cut) \o input.extra

TrailingBytes == {<<0>>, <<98, 0>>}

InputsOf(cores, experimentals) ==
  {i \in [core : cores, experimental : experimentals,
          cut : 0..MaxCut, extra : TrailingBytes \cup {<<>>}] :
     i.cut = 0 \/ i.extra = <<>>}

\* The stores of the small examples.
EmptyStore == StoreOf(<<>>, <<>>)

LibraryOnly == StoreOf(<<>>, <<[name |-> <<97, 98>>, source |-> <<120>>]>>)

DebuggerAndLibrary ==
  StoreOf(<<[name |-> <<97>>, source |-> <<>>]>>,
          <<[name |-> <<97, 98>>, source |-> <<120>>]>>)

\* Inputs of the decoding specification: every generated store first.
DecodeInputs ==
  InputsOf(WellFormedStores \cup NegativeCountStores, {EmptyStore, LibraryOnly})

\* Inputs of the lifecycle and reader specifications.
SmallInputs ==
  InputsOf({EmptyStore, DebuggerAndLibrary}, {EmptyStore, LibraryOnly})

\* ------------------------------------------------------------------------
\* State
\* ------------------------------------------------------------------------

NativeType == {"CORE", "EXPERIMENTAL", "D8", "TEST"}

NULL == 0

VARIABLES
  abi,      \* the build's byte order and cursor behaviour: [order, policy]
  heap,     \* the NativesStore objects allocated so far; a pointer is an index
  holder,   \* NativesHolder<type>::holder_, per type: a pointer or NULL
  status,   \* "running", or "fatal" once an ASSERT/CHECK has ended the process
  loads,    \* calls of SetNativesFromFile so far
  load,     \* the latest call of SetNativesFromFile, as its caller observes it
  last,     \* the latest call of a NativesCollection<type> method
  readers   \* the reader threads in the middle of a facade call

vars == <<abi, heap, holder, status, loads, load, last, readers>>

\* Reader threads of the reader specification.
Readers == {1, 2}

NoLoad ==
  [input |-> <<>>, data |-> <<>>, made |-> 0, dropped |-> <<0, 0>>,
   completed |-> FALSE, position |-> 0]

NoCall == [op |-> "none", type |-> "none", arg |-> <<>>, ok |-> TRUE, ret |-> <<>>]

Idle == [pc |-> "idle", op |-> "none", type |-> "none", arg |-> <<>>,
         store |-> NULL, ok |-> TRUE, ret |-> <<>>]

\* The state at process start: template<NativeType type>
\* NativesStore* NativesHolder<type>::holder_ = NULL;
Init ==
  /\ abi \in [order : ByteOrders, policy : FailPolicies]
  /\ heap = <<>>
  /\ holder = [type \in NativeType |-> NULL]
  /\ status = "running"
  /\ loads = 0
  /\ load = NoLoad
  /\ last = NoCall
  /\ readers = [r \in Readers |-> Idle]

\* ------------------------------------------------------------------------
\* NativesHolder<type>
\* ------------------------------------------------------------------------

\* get(): [ok, ret]; ok = FALSE when ASSERT(holder_) fails.
NativesHolder_get(holders, type) ==
  [ok |-> ASSERT(holders[type] # NULL), ret |-> holders[type]]

\* set(store): [ok, holders]; ok = FALSE when ASSERT(store) fails, before the
\* assignment.
NativesHolder_set(holders, type, store) ==
  IF ASSERT(store # NULL)
  THEN [ok |-> TRUE, holders |-> [holders EXCEPT ![type] = store]]
  ELSE [ok |-> FALSE, holders |-> holders]

\* ------------------------------------------------------------------------
\* SetNativesFromFile
\* ------------------------------------------------------------------------

\* The loader filling the two holders the other way round.
LoaderTypes_Swapped == <<"EXPERIMENTAL", "CORE">>

\* The types SetNativesFromFile installs its first and its second store under.
LoaderTypes == <<"CORE", "EXPERIMENTAL">>

\* The loader without its last ASSERT.
FullyConsumed_Unchecked(bytes) == TRUE

\* ASSERT(!bytes.HasMore());
FullyConsumed(bytes) == ASSERT(~HasMore(bytes))

\* new NativesStore: the pointer to the next object allocated on heap h.
New(h) == Len(h) + 1

\* NativesHolder<type>::set(NativesStore::MakeFromScriptsSource(&bytes)):
\* [ok, holders, heap, bytes, made, dropped]. ok = FALSE: the process ended
\* in the statement; made is 1 when MakeFromScriptsSource returned a store.
MakeAndSet(type, bytes, hs, h, build) ==
  The({ IF ~store.ok
        THEN [ok |-> FALSE, holders |-> hs, heap |-> h, bytes |-> store.bytes,
              made |-> 0, dropped |-> store.dropped]
        ELSE The({ [ok |-> set.ok, holders |-> set.holders,
                    heap |-> Append(h, store.store), bytes |-> store.bytes,
                    made |-> 1, dropped |-> store.dropped]
                   : set \in {NativesHolder_set(hs, type, New(h))} })
        : store \in {MakeFromScriptsSource(bytes, build)} })

\* The run of SetNativesFromFile on the bytes `data`, from holders hs and
\* heap h: [completed, holders, heap, made, dropped, position]. completed =
\* FALSE: the process ended inside the call, in the state given. made counts
\* the stores MakeFromScriptsSource returned, dropped[k] the pairs whose read
\* failed in its k-th call, position is where the cursor stood at the end.
RunSetNativesFromFile(data, hs, h, build) ==
  IF ~ASSERT(Len(data) > 0)
  THEN [completed |-> FALSE, holders |-> hs, heap |-> h, made |-> 0,
        dropped |-> <<0, 0>>, position |-> 0]
  ELSE
  The({ IF ~core.ok
        THEN [completed |-> FALSE, holders |-> core.holders,
              heap |-> core.heap, made |-> core.made,
              dropped |-> <<core.dropped, 0>>,
              position |-> core.bytes.position]
        ELSE The({ [completed |-> experimental.ok
                                    /\ FullyConsumed(experimental.bytes),
                    holders |-> experimental.holders,
                    heap |-> experimental.heap,
                    made |-> core.made + experimental.made,
                    dropped |-> <<core.dropped, experimental.dropped>>,
                    position |-> experimental.bytes.position]
                   : experimental \in
                       {MakeAndSet(LoaderTypes[2], core.bytes, core.holders,
                                   core.heap, build)} })
        : core \in {MakeAndSet(LoaderTypes[1], SnapshotByteSource(data), hs, h,
                               build)} })

\* The embedder calls SetNativesFromFile with the blob of `input`.
SetNativesFromFile(input) ==
  /\ status = "running"
  /\ loads < MaxLoads
  /\ \A r \in Readers : readers[r].pc # "got"
  /\ \E data \in {BlobOf(input, abi.order)} :
       \E run \in {RunSetNativesFromFile(data, holder, heap, abi)} :
         /\ holder' = run.holders
         /\ heap' = run.heap
         /\ status' = IF run.completed THEN "running" ELSE "fatal"
         /\ load' = [input |-> input, data |-> data, made |-> run.made,
                     dropped |-> run.dropped, completed |-> run.completed,
                     position |-> run.position]
  /\ loads' = loads + 1
  /\ UNCHANGED <<abi, last, readers>>

\* ------------------------------------------------------------------------
\* NativesCollection<type>
\* ------------------------------------------------------------------------

Queries == {"GetBuiltinsCount", "GetDebuggerCount", "GetScriptName",
            "GetRawScriptSource", "GetIndex"}

Unsupported == {"GetRawScriptsSize", "GetScriptsSource", "SetRawScriptsSource"}

\* Names asked of GetIndex: "a", "ab", "b" and "a\001".
QueryNames == {<<97>>, <<97, 98>>, <<98>>, <<97, 1>>}

\* The arguments a call of op is made with.
Args(op) ==
  IF op \in {"GetScriptName", "GetRawScriptSource"} THEN 0..MaxPairs
  ELSE IF op = "GetIndex" THEN QueryNames
  ELSE {<<>>}

\* The NativesStore method a facade method forwards to.
StoreCall(op, store, arg) ==
  CASE op = "GetBuiltinsCount" -> GetBuiltinsCount(store)
    [] op = "GetDebuggerCount" -> GetDebuggerCount(store)
    [] op = "GetIndex" -> GetIndex(store, arg)
    [] op = "GetRawScriptsSize" -> GetRawScriptsSize(store)
    [] op = "GetRawScriptSource" -> GetRawScriptSource(store, arg)
    [] op = "GetScriptName" -> GetScriptName(store, arg)
    [] op = "GetScriptsSource" -> GetScriptsSource(store)

\* SetRawScriptsSource: CHECK(false).
SetRawScriptsSource(h) ==
  IF CHECK(FALSE) THEN [ok |-> TRUE, ret |-> <<>>, heap |-> h]
  ELSE [ok |-> FALSE, ret |-> <<>>, heap |-> h]

\* The facade going on past NativesHolder<type>::get() on an empty holder and
\* returning a default value.
NativesCollection_Unguarded(op, type, arg, hs, h) ==
  IF op = "SetRawScriptsSource" THEN SetRawScriptsSource(h)
  ELSE IF hs[type] = NULL THEN [ok |-> TRUE, ret |-> 0, heap |-> h]
  ELSE The({ [ok |-> r.ok, ret |-> r.ret,
              heap |-> [h EXCEPT ![hs[type]] = r.self]]
             : r \in {StoreCall(op, h[hs[type]], arg)} })

\* NativesCollection<type>::op(arg) run as a whole on holders hs and heap h:
\* [ok, ret, heap]. ok = FALSE: the call was fatal and returned nothing.
NativesCollection(op, type, arg, hs, h) ==
  IF op = "SetRawScriptsSource" THEN SetRawScriptsSource(h)
  ELSE The({ IF ~got.ok THEN [ok |-> FALSE, ret |-> <<>>, heap |-> h]
             ELSE The({ [ok |-> r.ok, ret |-> r.ret,
                         heap |-> [h EXCEPT ![got.ret] = r.self]]
                        : r \in {StoreCall(op, h[got.ret], arg)} })
             : got \in {NativesHolder_get(hs, type)} })

\* One call of a facade method, start to end, by the only thread running.
Call(ops, types) ==
  /\ status = "running"
  /\ \A r \in Readers : readers[r].pc # "got"
  /\ \E op \in ops, type \in types :
       \E arg \in Args(op) :
         \E r \in {NativesCollection(op, type, arg, holder, heap)} :
             /\ last' = [op |-> op, type |-> type, arg |-> arg,
                         ok |-> r.ok, ret |-> r.ret]
             /\ heap' = r.heap
             /\ status' = IF r.ok THEN "running" ELSE "fatal"
  /\ UNCHANGED <<abi, holder, loads, load, readers>>

\* ------------------------------------------------------------------------
\* Reader threads: a facade query in its two steps, NativesHolder<type>::get()
\* and then the method of the store it returned.
\* ------------------------------------------------------------------------

ReaderGet(r, ops, types) ==
  /\ status = "running"
  /\ readers[r].pc # "got"
  /\ \E op \in ops, type \in types :
       \E arg \in Args(op) :
         \E got \in {NativesHolder_get(holder, type)} :
             /\ readers' = [readers EXCEPT ![r] =
                   [pc |-> IF got.ok THEN "got" ELSE "done", op |-> op,
                    type |-> type, arg |-> arg, store |-> got.ret,
                    ok |-> got.ok, ret |-> <<>>]]
             /\ status' = IF got.ok THEN "running" ELSE "fatal"
  /\ UNCHANGED <<abi, heap, holder, loads, load, last>>

ReaderRead(r) ==
  /\ status = "running"
  /\ readers[r].pc = "got"
  /\ \E me \in {readers[r]} :
       \E res \in {StoreCall(me.op, heap[me.store], me.arg)} :
         /\ readers' = [readers EXCEPT ![r] =
               [me EXCEPT !.pc = "done", !.ok = res.ok, !.ret = res.ret]]
         /\ heap' = [heap EXCEPT ![me.store] = res.self]
         /\ status' = IF res.ok THEN "running" ELSE "fatal"
  /\ UNCHANGED <<abi, holder, loads, load, last>>

\* ------------------------------------------------------------------------
\* Specifications
\* ------------------------------------------------------------------------

\* The lifecycle: the loader, run up to MaxLoads times, and every facade
\* method on every type, one call at a time.
Load == \E input \in SmallInputs : SetNativesFromFile(input)

Query == Call(Queries, NativeType)

Refused == Call(Unsupported, NativeType)

Next == Load \/ Query \/ Refused

Spec == Init /\ [][Next]_vars

\* Decoding: one run of the loader on every generated blob, then lookups by
\* name in the store decoded first.
DecodeLoad ==
  /\ loads = 0
  /\ \E input \in DecodeInputs : SetNativesFromFile(input)

DecodeQuery == Call({"GetIndex"}, {"CORE"})

DecodeNext == DecodeLoad \/ DecodeQuery

SpecDecode == Init /\ [][DecodeNext]_vars

\* Readers: the loader once, then reader threads querying one type, their
\* steps interleaved.
ReaderLoad ==
  /\ loads = 0
  /\ \A r \in Readers : readers[r].pc = "idle"
  /\ \E input \in SmallInputs : SetNativesFromFile(input)

ReaderBegin == \E r \in Readers : ReaderGet(r, Queries, {"CORE"})

ReaderEnd == \E r \in Readers : ReaderRead(r)

ReaderNext == ReaderLoad \/ ReaderBegin \/ ReaderEnd

SpecReaders == Init /\ [][ReaderNext]_vars

\* ------------------------------------------------------------------------
\* Properties
\* ------------------------------------------------------------------------

\* The store at pointer p holds exactly the pairs of desc, debugger pairs
\* first, and reports desc's debugger count.
Decoded(p, desc) ==
  /\ p \in 1..Len(heap)
  /\ GetBuiltinsCount(heap[p]) = Returned(Len(AllPairs(desc)), heap[p])
  /\ GetDebuggerCount(heap[p]) = Returned(Len(desc.debuggers), heap[p])
  /\ \A i \in 0..(Len(AllPairs(desc)) - 1) :
       /\ GetScriptName(heap[p], i) = Returned(AllPairs(desc)[i + 1].name, heap[p])
       /\ GetRawScriptSource(heap[p], i)
            = Returned(AllPairs(desc)[i + 1].source, heap[p])

\* C1 (round trip): a well-formed store of N pairs with a debugger prefix of
\* d pairs, encoded and decoded by MakeFromScriptsSource, gives a store with
\* GetBuiltinsCount() = N, GetDebuggerCount() = d and the i-th name and
\* source of the original for every i, debugger pairs first; the second store
\* of an intact blob likewise.
C1_RoundTrip ==
  (loads = 1 /\ WellFormed(load.input.core)) =>
    /\ Decoded(1, load.input.core)
    /\ Intact(load.input) => Decoded(2, load.input.experimental)

C1_Witness ==
  /\ loads = 1
  /\ Intact(load.input)
  /\ Len(load.input.core.debuggers) = 1
  /\ Len(load.input.core.libraries) = 1
  /\ load.input.core.debuggers[1].name # load.input.core.libraries[1].name
  /\ load.input.experimental = LibraryOnly
  /\ Decoded(1, load.input.core)
  /\ Decoded(2, load.input.experimental)

\* C2 (set-once registry), as claimed: a holder that is occupied keeps the
\* collection it holds through every step, a further SetNativesFromFile
\* included.
C2_SetOnce ==
  [][\A type \in NativeType :
       holder[type] # NULL =>
         /\ holder'[type] # NULL
         /\ heap'[holder'[type]] = heap[holder[type]]]_vars

\* C3 (failure propagation), as claimed: a call of MakeFromScriptsSource in
\* which a read failed returns no store (the k-th call of the loader returned
\* one iff load.made >= k). Stated for blobs of well-formed stores, cut short.
C3_ReadFailureIsFatal ==
  (loads = 1 /\ WellFormed(load.input.core)) =>
    \A k \in 1..2 : load.dropped[k] > 0 => load.made < k

\* C4 (count invariant), as claimed: every store MakeFromScriptsSource has
\* returned has 0 <= GetDebuggerCount() <= GetBuiltinsCount().
C4_DebuggerCountInRange ==
  \A p \in 1..Len(heap) :
    /\ 0 <= GetDebuggerCount(heap[p]).ret
    /\ GetDebuggerCount(heap[p]).ret <= GetBuiltinsCount(heap[p]).ret

\* The indices of the store whose name span equals name byte for byte.
Matches(store, name) ==
  {i \in 0..(Len(store.native_names_) - 1) :
     Bytes(store, store.native_names_[i + 1]) = name}

\* C5 (lookup), as claimed: GetIndex(name) returns the smallest index whose
\* stored name span equals name over its full length, and is fatal when no
\* stored name does. Stated for the stores of intact, well-formed blobs.
C5_LookupCorrect ==
  (/\ last.op = "GetIndex"
   /\ holder[last.type] # NULL
   /\ Intact(load.input)
   /\ WellFormed(load.input.core)) =>
    LET found == Matches(heap[holder[last.type]], last.arg)
    IN  IF found = {}
        THEN ~last.ok
        ELSE /\ last.ok
             /\ last.ret \in found
             /\ \A i \in found : last.ret <= i

\* The cursor of the latest loader call as it stood at the end.
LoadCursor ==
  [SnapshotByteSource(load.data) EXCEPT !.position = load.position]

\* C6 (full consumption): on a blob of exactly two well-formed stores both
\* decodes succeed, the cursor ends with HasMore() false and the loader
\* returns; with extra bytes after the two stores both decodes succeed and
\* the loader ends in a fatal error.
C6_FullConsumption ==
  (/\ loads = 1
   /\ WellFormed(load.input.core)
   /\ WellFormed(load.input.experimental)
   /\ load.input.cut = 0) =>
    /\ load.made = 2
    /\ load.input.extra = <<>> => (load.completed /\ ~HasMore(LoadCursor))
    /\ load.input.extra # <<>> =>
         (~load.completed /\ HasMore(LoadCursor) /\ status = "fatal")

C6_Witness ==
  /\ loads = 1
  /\ load.input.core = DebuggerAndLibrary
  /\ load.input.cut = 0
  /\ load.input.extra = <<0>>
  /\ load.made = 2
  /\ status = "fatal"

\* C7 (use before initialization): a facade query on a type whose holder is
\* empty is fatal and returns nothing; the holders of CORE and EXPERIMENTAL
\* are empty before the loader has run, those of D8 and TEST always.
C7_UseBeforeInit ==
  /\ holder["D8"] = NULL /\ holder["TEST"] = NULL
  /\ loads = 0 => (holder["CORE"] = NULL /\ holder["EXPERIMENTAL"] = NULL)
  /\ (last.op \in Queries /\ holder[last.type] = NULL) =>
       (~last.ok /\ last.ret = <<>> /\ status = "fatal")

C7_Witness ==
  /\ loads = 1
  /\ load.completed
  /\ last.op = "GetBuiltinsCount"
  /\ last.type = "TEST"
  /\ ~last.ok

\* What the facade of `type` serves is exactly the pairs of desc.
Serves(type, desc) ==
  /\ NativesCollection("GetBuiltinsCount", type, <<>>, holder, heap)
       = [ok |-> TRUE, ret |-> Len(AllPairs(desc)), heap |-> heap]
  /\ NativesCollection("GetDebuggerCount", type, <<>>, holder, heap)
       = [ok |-> TRUE, ret |-> Len(desc.debuggers), heap |-> heap]
  /\ \A i \in 0..(Len(AllPairs(desc)) - 1) :
       /\ NativesCollection("GetScriptName", type, i, holder, heap)
            = [ok |-> TRUE, ret |-> AllPairs(desc)[i + 1].name, heap |-> heap]
       /\ NativesCollection("GetRawScriptSource", type, i, holder, heap)
            = [ok |-> TRUE, ret |-> AllPairs(desc)[i + 1].source, heap |-> heap]

\* C8 (loader order): after SetNativesFromFile on an intact blob the CORE
\* facade serves the pairs of the first store, the EXPERIMENTAL facade those
\* of the second, and the holders of D8 and TEST are still empty.
C8_LoaderOrder ==
  (/\ loads >= 1
   /\ Intact(load.input)
   /\ WellFormed(load.input.core)
   /\ WellFormed(load.input.experimental)) =>
    /\ load.completed
    /\ Serves("CORE", load.input.core)
    /\ Serves("EXPERIMENTAL", load.input.experimental)
    /\ holder["D8"] = NULL /\ holder["TEST"] = NULL

C8_Witness ==
  /\ loads = 1
  /\ Intact(load.input)
  /\ load.input.core = DebuggerAndLibrary
  /\ load.input.experimental = LibraryOnly
  /\ Serves("CORE", DebuggerAndLibrary)
  /\ Serves("EXPERIMENTAL", LibraryOnly)

\* C9 (unsupported operations): a call of GetRawScriptsSize, GetScriptsSource
\* or SetRawScriptsSource, on any type and in any state, is fatal, returns
\* nothing and leaves every holder and every store as it was. (A step of the
\* running process after which the latest call is one of the three is that
\* call.)
C9_UnsupportedIsFatal ==
  [][(status = "running" /\ last'.op \in Unsupported) =>
       /\ ~last'.ok
       /\ last'.ret = <<>>
       /\ status' = "fatal"
       /\ holder' = holder
       /\ heap' = heap]_vars

C9_Witness ==
  /\ last.op = "GetScriptsSource"
  /\ holder[last.type] # NULL
  /\ ~last.ok
  /\ status = "fatal"

\* What the latest loader call installed, computed from its blob.
Installed ==
  RunSetNativesFromFile(load.data, [type \in NativeType |-> NULL], <<>>, abi)

\* C10 (read-only after installation): once SetNativesFromFile has completed,
\* whatever queries reader threads have run or are running, the holders and
\* the stores are as the loader left them, and every query that has finished
\* returned what the same call returns when run alone on the installed state.
C10_ReadOnly ==
  (loads = 1 /\ load.completed) =>
    /\ holder = Installed.holders
    /\ heap = Installed.heap
    /\ \A r \in Readers :
         readers[r].pc = "done" =>
           LET alone == NativesCollection(readers[r].op, readers[r].type,
                                          readers[r].arg, Installed.holders,
                                          Installed.heap)
           IN  readers[r].ok = alone.ok /\ readers[r].ret = alone.ret

C10_Witness ==
  /\ loads = 1
  /\ load.completed
  /\ readers[1].pc = "got"
  /\ readers[1].op = "GetRawScriptSource"
  /\ readers[2].pc = "done"
  /\ readers[2].op = "GetRawScriptSource"
  /\ readers[2].arg = 1
  /\ readers[1].arg = 1
  /\ readers[2].ok
  /\ readers[2].ret = <<120>>

====
